---- MODULE Spec2Model ----
(***************************************************************************)
(* kinematics2d: Vector2D (vector2d.py) and Kinematics (kinematics.py).    *)
(*                                                                         *)
(* Four specifications share the translated functions:                     *)
(*   Spec     the object heap: which Vector objects a Kinematics holds,    *)
(*            and what constructions, property reads and writes do to it;  *)
(*   SpecAlg  the frame algebra (+, -, zeros) over Kinematics values;      *)
(*   SpecUpd  successive updated() calls on a Kinematics value;            *)
(*   SpecVec  the Vector functions with zero-magnitude cases and the two   *)
(*            stopping-distance functions, over signed exact fractions.    *)
(*                                                                         *)
(* Numbers.  In Spec, SpecAlg and SpecUpd coordinates are integers and     *)
(* angles are counted in quarter turns (one unit = pi/2), the orientations *)
(* at which the rotation is exact: the matrix entries are taken as 0, 1    *)
(* and -1 (in float64 cos(pi/2) is 6e-17, the rounding the claims set      *)
(* aside).  Pose is not among the source files; Pose.__init__ and          *)
(* Pose.zeros() follow the description of Pose.  In SpecVec a              *)
(* float is a sign and an exact non-negative fraction, so that +0.0 and    *)
(* -0.0 are different values that compare equal, as in IEEE-754.           *)
(***************************************************************************)
EXTENDS Integers, Sequences, FiniteSets, TLC

VARIABLES
    vecs,    \* heap of Vector objects: vecs[i] is the _array of object i
    kins,    \* heap of Kinematics objects: _position and _velocity are ids into vecs
    poses,   \* heap of Pose objects
    last,    \* the operation that produced this state
    nops,    \* operations performed so far
    ka, kb,  \* SpecAlg, SpecUpd: the operands self and other (Kinematics values)
    res,     \* SpecAlg, SpecUpd: the value the last operation returned
    aop,     \* SpecAlg, SpecUpd: the last operation
    k0,      \* SpecUpd: the Kinematics the successive updated() calls started from
    adt,     \* SpecUpd: the delta_time of the last updated()
    nupd,    \* SpecUpd: how many times k = k.updated(dt) has run
    fself, fother, frot, fdecel,   \* SpecVec: inputs
    fres,    \* SpecVec: the value the last operation returned
    fop      \* SpecVec: the last operation

heapVars == <<vecs, kins, poses, last, nops>>
algVars == <<ka, kb, k0, res, aop, adt, nupd>>
vecVars == <<fself, fother, frot, fdecel, fres, fop>>
vars == <<vecs, kins, poses, last, nops, ka, kb, k0, res, aop, adt, nupd,
          fself, fother, frot, fdecel, fres, fop>>

(***************************************************************************)
(* Bounds                                                                  *)
(***************************************************************************)
MaxOps == 4         \* operations of one run of the heap
MaxVecs == 4        \* Vector objects in the heap (a Kinematics holds two, a Pose one)
MaxDt == 2          \* SpecUpd: delta_time is in -1..MaxDt
MaxUpd == 2         \* SpecUpd: successive updated() calls
MaxMag == 5         \* SpecVec: vector coordinates are in -MaxMag..MaxMag
MaxRate == 2        \* SpecVec: rotation is a multiple of 1/2 in -MaxRate..MaxRate
MaxDecel == 2       \* SpecVec: the deceleration magnitude is 1/2 or in 1..MaxDecel

(***************************************************************************)
(* Vector2D over integers (vector2d.py).  A vector value is its _array,    *)
(* <<x, y>>; _array[0] and _array[1] are the tuple's elements 1 and 2.     *)
(***************************************************************************)
Vector2D(x, y) == <<x, y>>

from_array(array) == Vector2D(array[1], array[2])

from_copy(source) == from_array(source)

Vector_zeros == Vector2D(0, 0)

Vector__add__(self, other) == from_array(<<self[1] + other[1], self[2] + other[2]>>)

\* the operands taken the other way round, as __rsub__ does
Vector__sub__swapped(self, other) == from_array(<<other[1] - self[1], other[2] - self[2]>>)

Vector__sub__(self, other) == from_array(<<self[1] - other[1], self[2] - other[2]>>)

Vector__mul__(self, other) == from_array(<<self[1] * other, self[2] * other>>)

\* math.cos and math.sin at a whole number of quarter turns
Cos(angle) == CASE angle % 4 = 0 -> 1
                [] angle % 4 = 1 -> 0
                [] angle % 4 = 2 -> -1
                [] angle % 4 = 3 -> 0

Sin(angle) == CASE angle % 4 = 0 -> 0
                [] angle % 4 = 1 -> 1
                [] angle % 4 = 2 -> 0
                [] angle % 4 = 3 -> -1

\* np.dot of a 2x2 matrix (a tuple of rows) and a vector
MatDot(m, v) == <<m[1][1] * v[1] + m[1][2] * v[2], m[2][1] * v[1] + m[2][2] * v[2]>>

\* the rotation matrix transposed: a clockwise rotation
rotated_cw(self, angle) ==
    LET rotation_matrix == << <<Cos(angle), Sin(angle)>>,
                              <<-1 * Sin(angle), Cos(angle)>> >>
    IN  from_array(MatDot(rotation_matrix, self))

rotated(self, angle) ==
    LET rotation_matrix == << <<Cos(angle), -1 * Sin(angle)>>,
                              <<Sin(angle), Cos(angle)>> >>
    IN  from_array(MatDot(rotation_matrix, self))

(***************************************************************************)
(* Kinematics over values (kinematics.py): what each operation computes.   *)
(***************************************************************************)
Kinematics(position, orientation, velocity, rotation) ==
    [position |-> from_copy(position), orientation |-> orientation,
     velocity |-> from_copy(velocity), rotation |-> rotation]

\* Pose.zeros() is (Vector.zeros(), 0.0)
Pose_zeros == [position |-> Vector_zeros, orientation |-> 0]

Kinematics_from_pose(pose, velocity, rotation) ==
    Kinematics(pose.position, pose.orientation, velocity, rotation)

Kinematics_from_copy(source) ==
    Kinematics(from_copy(source.position), source.orientation,
               from_copy(source.velocity), source.rotation)

Kinematics_zeros == Kinematics_from_pose(Pose_zeros, Vector_zeros, 0)

\* other's orientation used for the rotation instead of self's
Kinematics__add__other(self, other) ==
    Kinematics(Vector__add__(self.position, rotated(other.position, other.orientation)),
               self.orientation + other.orientation,
               Vector__add__(self.velocity, rotated(other.velocity, other.orientation)),
               self.rotation + other.rotation)

Kinematics__add__(self, other) ==
    Kinematics(Vector__add__(self.position, rotated(other.position, self.orientation)),
               self.orientation + other.orientation,
               Vector__add__(self.velocity, rotated(other.velocity, self.orientation)),
               self.rotation + other.rotation)

\* the difference rotated by other's orientation instead of its negation
Kinematics__sub__fwd(self, other) ==
    Kinematics(rotated(Vector__sub__(self.position, other.position), other.orientation),
               self.orientation - other.orientation,
               rotated(Vector__sub__(self.velocity, other.velocity), other.orientation),
               self.rotation - other.rotation)

Kinematics__sub__(self, other) ==
    Kinematics(rotated(Vector__sub__(self.position, other.position), -other.orientation),
               self.orientation - other.orientation,
               rotated(Vector__sub__(self.velocity, other.velocity), -other.orientation),
               self.rotation - other.rotation)

\* the displacement rotated by the orientation at the start of the step
updated_start(self, delta_time) ==
    LET delta_orientation == self.rotation * delta_time
        new_orientation == self.orientation + delta_orientation
        delta_position == Vector__mul__(self.velocity, delta_time)
        new_position == Vector__add__(self.position, rotated(delta_position, self.orientation))
    IN  Kinematics(new_position, new_orientation, self.velocity, self.rotation)

updated(self, delta_time) ==
    LET delta_orientation == self.rotation * delta_time
        new_orientation == self.orientation + delta_orientation
        delta_position == Vector__mul__(self.velocity, delta_time)
        new_position == Vector__add__(self.position, rotated(delta_position, delta_orientation))
    IN  Kinematics(new_position, new_orientation, self.velocity, self.rotation)

(***************************************************************************)
(* The object heap.  A reference handed to a constructor is either an      *)
(* object of the heap or a temporary the caller has just computed.         *)
(***************************************************************************)
Obj(i) == [tag |-> "obj", id |-> i, val |-> Vector_zeros]
Tmp(v) == [tag |-> "tmp", id |-> 0, val |-> v]
Deref(vs, ref) == IF ref.tag = "obj" THEN vs[ref.id] ELSE ref.val

\* The Kinematics object as the value its properties show
KinValue(vs, k) ==
    [position |-> vs[k.position], orientation |-> k.orientation,
     velocity |-> vs[k.velocity], rotation |-> k.rotation]

PoseValue(vs, p) == [position |-> vs[p.position], orientation |-> p.orientation]

\* A constructor that keeps the Vector it is handed instead of copying it
Kinematics__init__keep(vs, position, orientation, velocity, rotation) ==
    LET vs1 == IF position.tag = "obj" THEN vs ELSE Append(vs, position.val)
        p == IF position.tag = "obj" THEN position.id ELSE Len(vs1)
        vs2 == IF velocity.tag = "obj" THEN vs1 ELSE Append(vs1, velocity.val)
        v == IF velocity.tag = "obj" THEN velocity.id ELSE Len(vs2)
    IN  [heap |-> vs2,
         kin |-> [position |-> p, orientation |-> orientation,
                  velocity |-> v, rotation |-> rotation]]

\* Kinematics.__init__: _position and _velocity are new Vector objects
Kinematics__init__(vs, position, orientation, velocity, rotation) ==
    LET vs1 == Append(vs, from_copy(Deref(vs, position)))
        vs2 == Append(vs1, from_copy(Deref(vs1, velocity)))
    IN  [heap |-> vs2,
         kin |-> [position |-> Len(vs1), orientation |-> orientation,
                  velocity |-> Len(vs2), rotation |-> rotation]]

\* Pose.__init__ keeps its own copy of position
Pose__init__(vs, position, orientation) ==
    LET vs1 == Append(vs, from_copy(Deref(vs, position)))
    IN  [heap |-> vs1, pose |-> [position |-> Len(vs1), orientation |-> orientation]]

\* The heap's coordinates, orientations and rotations: two values of each are
\* enough to tell a changed field from an unchanged one
Coords == {0, 1}
Turns == {0, 1}

InRange(v) == v[1] \in Coords /\ v[2] \in Coords

\* Every operation is one step of the run
Step(op) ==
    /\ nops < MaxOps
    /\ nops' = nops + 1
    /\ last' = op
    /\ UNCHANGED <<algVars, vecVars>>

\* The heap after a made Kinematics is stored; the caps keep the model finite
Store(made, op) ==
    /\ Step(op)
    /\ Len(made.heap) <= MaxVecs
    /\ InRange(made.heap[made.kin.position])
    /\ InRange(made.heap[made.kin.velocity])
    /\ made.kin.orientation \in Turns
    /\ made.kin.rotation \in Turns
    /\ vecs' = made.heap
    /\ kins' = Append(kins, made.kin)
    /\ poses' = poses

VecIds == 1..Len(vecs)
KinIds == 1..Len(kins)
PoseIds == 1..Len(poses)

\* Vector(x, y)
NewVector ==
    \E x \in Coords, y \in Coords :
        /\ Step("Vector")
        /\ Len(vecs) < MaxVecs
        /\ vecs' = Append(vecs, Vector2D(x, y))
        /\ UNCHANGED <<kins, poses>>

\* Pose(position, orientation)
NewPose ==
    \E p \in VecIds, o \in Turns :
        LET made == Pose__init__(vecs, Obj(p), o)
        IN  /\ Step("Pose")
            /\ Len(made.heap) <= MaxVecs
            /\ vecs' = made.heap
            /\ poses' = Append(poses, made.pose)
            /\ UNCHANGED kins

\* Kinematics(position, orientation, velocity, rotation)
NewKinematics ==
    \E p \in VecIds, v \in VecIds, o \in Turns, r \in Turns :
        Store(Kinematics__init__(vecs, Obj(p), o, Obj(v), r), "Kinematics")

\* Kinematics.from_pose(pose, velocity, rotation): pose.position is the Pose's Vector
FromPose ==
    \E q \in PoseIds, v \in VecIds, r \in Turns :
        Store(Kinematics__init__(vecs, Obj(poses[q].position), poses[q].orientation,
                                 Obj(v), r), "from_pose")

\* Kinematics.from_copy(source): the constructor is handed two temporary copies
FromCopy ==
    \E s \in KinIds :
        Store(Kinematics__init__(vecs, Tmp(from_copy(vecs[kins[s].position])),
                                 kins[s].orientation,
                                 Tmp(from_copy(vecs[kins[s].velocity])),
                                 kins[s].rotation), "from_copy")

\* Kinematics.zeros(): from_pose of a temporary Pose.zeros() and a temporary Vector.zeros()
Zeros ==
    /\ nops < MaxOps
    /\ Store(Kinematics__init__(vecs, Tmp(Pose_zeros.position), Pose_zeros.orientation,
                             Tmp(Vector_zeros), 0), "zeros")

\* a + b, a - b, a.updated(dt): the constructor is handed the computed temporaries
Built(k) == Kinematics__init__(vecs, Tmp(k.position), k.orientation,
                               Tmp(k.velocity), k.rotation)

Add ==
    \E a \in KinIds, b \in KinIds :
        Store(Built(Kinematics__add__(KinValue(vecs, kins[a]), KinValue(vecs, kins[b]))),
              "add")

Sub ==
    \E a \in KinIds, b \in KinIds :
        Store(Built(Kinematics__sub__(KinValue(vecs, kins[a]), KinValue(vecs, kins[b]))),
              "sub")

Updated ==
    \E a \in KinIds, dt \in Turns :
        Store(Built(updated(KinValue(vecs, kins[a]), dt)), "updated")

\* k.pose: a new Pose of _position and _orientation
GetPose ==
    \E k \in KinIds :
        LET made == Pose__init__(vecs, Obj(kins[k].position), kins[k].orientation)
        IN  /\ Step("pose")
            /\ Len(made.heap) <= MaxVecs
            /\ vecs' = made.heap
            /\ poses' = Append(poses, made.pose)
            /\ UNCHANGED kins

\* k.position = value; the value is any Vector the caller can reach, a Vector it
\* made or one read from k.position, k.velocity or pose.position
SetPosition ==
    \E k \in KinIds, value \in VecIds :
        /\ Step("position")
        /\ kins' = [kins EXCEPT ![k].position = value]
        /\ UNCHANGED <<vecs, poses>>

SetVelocity ==
    \E k \in KinIds, value \in VecIds :
        /\ Step("velocity")
        /\ kins' = [kins EXCEPT ![k].velocity = value]
        /\ UNCHANGED <<vecs, poses>>

SetOrientation ==
    \E k \in KinIds, value \in Turns :
        /\ Step("orientation")
        /\ kins' = [kins EXCEPT ![k].orientation = value]
        /\ UNCHANGED <<vecs, poses>>

SetRotation ==
    \E k \in KinIds, value \in Turns :
        /\ Step("rotation")
        /\ kins' = [kins EXCEPT ![k].rotation = value]
        /\ UNCHANGED <<vecs, poses>>

\* v.x = value and v.y = value, v any Vector the caller can reach
SetX ==
    \E v \in VecIds, value \in Coords :
        /\ Step("x")
        /\ vecs' = [vecs EXCEPT ![v][1] = value]
        /\ UNCHANGED <<kins, poses>>

SetY ==
    \E v \in VecIds, value \in Coords :
        /\ Step("y")
        /\ vecs' = [vecs EXCEPT ![v][2] = value]
        /\ UNCHANGED <<kins, poses>>

InitHeap ==
    /\ vecs = <<>>
    /\ kins = <<>>
    /\ poses = <<>>
    /\ last = "start"
    /\ nops = 0

HeapIdle == vecs = <<>> /\ kins = <<>> /\ poses = <<>> /\ last = "idle" /\ nops = 0

AlgIdle == ka = 0 /\ kb = 0 /\ k0 = 0 /\ res = 0 /\ aop = "idle" /\ adt = 0 /\ nupd = 0

VecIdle ==
    /\ fself = 0 /\ fother = 0 /\ frot = 0 /\ fdecel = 0 /\ fres = 0 /\ fop = "idle"

Init == InitHeap /\ AlgIdle /\ VecIdle

Next ==
    \/ NewVector
    \/ NewPose
    \/ NewKinematics
    \/ FromPose
    \/ FromCopy
    \/ Zeros
    \/ Add
    \/ Sub
    \/ Updated
    \/ GetPose
    \/ SetPosition
    \/ SetVelocity
    \/ SetOrientation
    \/ SetRotation
    \/ SetX
    \/ SetY

Spec == Init /\ [][Next]_vars

(***************************************************************************)
(* Floats for SpecVec: a sign and an exact fraction num/den in lowest      *)
(* terms.  den = 0 is a non-finite value: num = 1 an infinity, num = 0 a   *)
(* NaN.  +0.0 is [neg |-> FALSE, num |-> 0, den |-> 1], -0.0 has neg TRUE. *)
(***************************************************************************)
RECURSIVE GCD(_, _)
GCD(m, n) == IF n = 0 THEN m ELSE GCD(n, m % n)

Frac(neg, n, d) == LET g == GCD(n, d) IN [neg |-> neg, num |-> n \div g, den |-> d \div g]
NaN == [neg |-> FALSE, num |-> 0, den |-> 0]
Inf(neg) == [neg |-> neg, num |-> 1, den |-> 0]
Finite(a) == a.den # 0
IsNaN(a) == a.den = 0 /\ a.num = 0

\* the float of the integer n, and of n/2
F(n) == [neg |-> n < 0, num |-> IF n < 0 THEN -n ELSE n, den |-> 1]
Half(n) == Frac(n < 0, IF n < 0 THEN -n ELSE n, 2)
NegZero == [neg |-> TRUE, num |-> 0, den |-> 1]

\* -a and abs(a)
FNeg(a) == [a EXCEPT !.neg = ~a.neg]
FAbs(a) == [a EXCEPT !.neg = FALSE]

\* a * b
FMul(a, b) ==
    IF IsNaN(a) \/ IsNaN(b) THEN NaN
    ELSE IF ~Finite(a) \/ ~Finite(b)
         THEN (IF (Finite(a) /\ a.num = 0) \/ (Finite(b) /\ b.num = 0)
               THEN NaN ELSE Inf(a.neg # b.neg))
         ELSE Frac(a.neg # b.neg, a.num * b.num, a.den * b.den)

\* a / b: x / 0 is an infinity and 0 / 0 a NaN, as numpy's float64 division gives
FDiv(a, b) ==
    IF IsNaN(a) \/ IsNaN(b) THEN NaN
    ELSE IF ~Finite(a) THEN (IF ~Finite(b) THEN NaN ELSE Inf(a.neg # b.neg))
    ELSE IF ~Finite(b) THEN Frac(a.neg # b.neg, 0, 1)
    ELSE IF b.num = 0 THEN (IF a.num = 0 THEN NaN ELSE Inf(a.neg # b.neg))
    ELSE Frac(a.neg # b.neg, a.num * b.den, a.den * b.num)

\* a + b: an exact zero sum is +0.0 unless both operands are negative
FAdd(a, b) ==
    IF IsNaN(a) \/ IsNaN(b) THEN NaN
    ELSE IF ~Finite(a) THEN (IF ~Finite(b) /\ a.neg # b.neg THEN NaN ELSE a)
    ELSE IF ~Finite(b) THEN b
    ELSE LET sa == (IF a.neg THEN -1 ELSE 1) * a.num * b.den
             sb == (IF b.neg THEN -1 ELSE 1) * b.num * a.den
             t == sa + sb
         IN  IF t = 0 THEN Frac(a.neg /\ b.neg, 0, 1)
             ELSE Frac(t < 0, IF t < 0 THEN -t ELSE t, a.den * b.den)

\* a == b, a != b and a > 0.0: the two zeros are equal, a NaN equals nothing
FEq(a, b) ==
    /\ ~IsNaN(a) /\ ~IsNaN(b)
    /\ IF Finite(a) /\ Finite(b)
       THEN a.num * b.den = b.num * a.den /\ (a.num = 0 \/ a.neg = b.neg)
       ELSE ~Finite(a) /\ ~Finite(b) /\ a.neg = b.neg

FGt0(a) == ~IsNaN(a) /\ ~a.neg /\ a.num > 0

\* the square root of a float whose numerator and denominator are squares (the
\* magnitudes the inputs of SpecVec have)
ISqrt(n) == CHOOSE r \in 0..n : r * r = n
FSqrt(a) == IF ~Finite(a) THEN a ELSE [neg |-> a.neg, num |-> ISqrt(a.num), den |-> ISqrt(a.den)]

\* round(a, 4): to the nearest multiple of 1/10000, a tie to the even one
Round4(a) ==
    LET n == a.num * 10000
        q == n \div a.den
        r == n % a.den
        up == 2 * r > a.den \/ (2 * r = a.den /\ q % 2 = 1)
    IN  IF ~Finite(a) THEN a ELSE Frac(a.neg, IF up THEN q + 1 ELSE q, 10000)

\* math.acos: 0.0 at 1.0, otherwise the angle in (0, pi] that has this cosine
Exactly(a) == [kind |-> "float", val |-> a]
Acos(c) == IF FEq(c, F(1)) THEN Exactly(F(0)) ELSE [kind |-> "acos", val |-> c]

(***************************************************************************)
(* Vector2D over floats (vector2d.py)                                      *)
(***************************************************************************)
FVector_zeros == Vector2D(F(0), F(0))

FVector__mul__(self, other) == from_array(<<FMul(self[1], other), FMul(self[2], other)>>)

Vector__truediv__(self, other) == from_array(<<FDiv(self[1], other), FDiv(self[2], other)>>)

Vector__eq__(self, other) == FEq(self[1], other[1]) /\ FEq(self[2], other[2])

\* np.linalg.norm
magnitude(self) == FSqrt(FAdd(FMul(self[1], self[1]), FMul(self[2], self[2])))

Vector__abs__(self) == magnitude(self)

\* np.dot
dot(self, other) == FAdd(FMul(self[1], other[1]), FMul(self[2], other[2]))

angle_from(self, other) ==
    IF FEq(Vector__abs__(self), F(0)) \/ FEq(Vector__abs__(other), F(0))
    THEN Exactly(F(0))
    ELSE LET cos == FDiv(dot(other, self), FMul(Vector__abs__(other), Vector__abs__(self)))
         IN  Acos(Round4(cos))

\* the division done whatever the magnitude
normalized_unguarded(self) == Vector__truediv__(self, magnitude(self))

normalized(self) ==
    LET magnitude_ == magnitude(self)
    IN  IF ~FEq(magnitude_, F(0))
        THEN Vector__truediv__(self, magnitude_)
        ELSE FVector_zeros

projected_to(self, other) ==
    IF FEq(Vector__abs__(other), F(0))
    THEN FVector_zeros
    ELSE Vector__truediv__(FVector__mul__(normalized(other), dot(self, other)),
                           Vector__abs__(other))

(***************************************************************************)
(* The stopping-distance functions (kinematics.py); self is the Kinematics *)
(***************************************************************************)
\* the magnitude not squared
delta_position_to_stop_linear(self, max_linear_decel_magnitude) ==
    Vector__truediv__(FVector__mul__(normalized(self.velocity), Vector__abs__(self.velocity)),
                      FMul(F(2), max_linear_decel_magnitude))

delta_position_to_stop(self, max_linear_decel_magnitude) ==
    Vector__truediv__(FVector__mul__(normalized(self.velocity),
                                     FMul(Vector__abs__(self.velocity), Vector__abs__(self.velocity))),
                      FMul(F(2), max_linear_decel_magnitude))

delta_orientation_to_stop(self, max_angular_decel_magnitude) ==
    LET value == FDiv(FMul(FAbs(self.rotation), FAbs(self.rotation)),
                      FMul(F(2), max_angular_decel_magnitude))
    IN  IF FGt0(self.rotation) THEN value ELSE FNeg(value)

(***************************************************************************)
(* SpecVec: each operation is applied to inputs drawn from bounded sets.   *)
(***************************************************************************)
IsSquare(n) == \E r \in 0..n : r * r = n

MagCoords == -MaxMag..MaxMag
\* the vectors of the grid whose magnitude is a whole number, (0, 0) among them
ExactVecs == {Vector2D(F(c[1]), F(c[2])) : c \in {c \in MagCoords \X MagCoords :
                                                    IsSquare(c[1] * c[1] + c[2] * c[2])}}
\* vectors to project: their magnitude is not used
ProjVecs == ExactVecs \cup {Vector2D(F(n), F(n)) : n \in MagCoords}
\* the second operand of projected_to and angle_from
OtherVecs == {FVector_zeros, Vector2D(F(1), F(0)), Vector2D(F(0), F(-2)),
              Vector2D(F(3), F(4)), Vector2D(F(-4), F(3))}
Rates == {Half(n) : n \in (-2 * MaxRate)..(2 * MaxRate)} \cup {NegZero}
Decels == {Half(1)} \cup {F(n) : n \in 1..MaxDecel}

\* a Kinematics at the origin with this velocity and rotation
Moving(velocity, rotation) ==
    [position |-> FVector_zeros, orientation |-> F(0), velocity |-> velocity,
     rotation |-> rotation]

InitVec ==
    /\ fself = FVector_zeros
    /\ fother = FVector_zeros
    /\ frot = F(0)
    /\ fdecel = F(1)
    /\ fres = F(0)
    /\ fop = "start"
    /\ HeapIdle /\ AlgIdle

\* One call: the inputs it was given (those it does not take are left at rest)
Given(self, other, rotation, decel) ==
    /\ fself' = self
    /\ fother' = other
    /\ frot' = rotation
    /\ fdecel' = decel
    /\ UNCHANGED <<heapVars, algVars>>

\* v.normalized()
Normalize ==
    \E v \in ExactVecs :
        /\ fop' = "normalized"
        /\ Given(v, FVector_zeros, F(0), F(1))
        /\ fres' = normalized(v)

\* v.projected_to(o)
Project ==
    \E v \in ProjVecs, o \in OtherVecs :
        /\ fop' = "projected_to"
        /\ Given(v, o, F(0), F(1))
        /\ fres' = projected_to(v, o)

\* v.angle_from(o)
AngleFrom ==
    \E vo \in (ExactVecs \X OtherVecs) \cup (OtherVecs \X ExactVecs) :
        /\ fop' = "angle_from"
        /\ Given(vo[1], vo[2], F(0), F(1))
        /\ fres' = angle_from(vo[1], vo[2])

\* k.delta_position_to_stop(d), k.velocity being v
StopPosition ==
    \E v \in ExactVecs, d \in Decels :
        /\ fop' = "delta_position_to_stop"
        /\ Given(v, FVector_zeros, F(0), d)
        /\ fres' = delta_position_to_stop(Moving(v, F(0)), d)

\* k.delta_orientation_to_stop(d), k.rotation being r
StopOrientation ==
    \E r \in Rates, d \in Decels :
        /\ fop' = "delta_orientation_to_stop"
        /\ Given(FVector_zeros, FVector_zeros, r, d)
        /\ fres' = delta_orientation_to_stop(Moving(FVector_zeros, r), d)

NextVec ==
    \/ Normalize
    \/ Project
    \/ AngleFrom
    \/ StopPosition
    \/ StopOrientation

SpecVec == InitVec /\ [][NextVec]_vars

(***************************************************************************)
(* Claims about the heap (Spec)                                            *)
(***************************************************************************)
\* Every vector, Kinematics and Pose of the heap but the Kinematics r is the same
\* after the step as before it
OthersUnchanged(r) ==
    /\ \A i \in 1..Len(vecs) :
          i \notin {kins[r].position, kins[r].velocity} => vecs'[i] = vecs[i]
    /\ \A j \in 1..Len(kins) :
          j # r => KinValue(vecs', kins'[j]) = KinValue(vecs, kins[j])
    /\ \A q \in 1..Len(poses) : PoseValue(vecs', poses'[q]) = PoseValue(vecs, poses[q])

ConstructOps == {"Kinematics", "from_pose", "from_copy", "zeros", "add", "sub", "updated"}

\* C2: a write performed on one instance never changes the field values observed
\* through a different instance.  Stated for Kinematics instances: no single
\* operation changes the fields (position, orientation, velocity, rotation) read
\* through two different Kinematics objects.
C2_NoHiddenAliasing ==
    [][\A i \in 1..Len(kins), j \in 1..Len(kins) :
          (i # j /\ KinValue(vecs', kins'[i]) # KinValue(vecs, kins[i]))
              => KinValue(vecs', kins'[j]) = KinValue(vecs, kins[j])]_vars

\* C3: a Kinematics produced by the constructor, from_pose, from_copy, zeros, +, -
\* or updated holds two new Vector objects, different from each other and from
\* every Vector that existed before; producing it changes no existing Vector,
\* Kinematics or Pose; and a component write (x=, y=) that directly follows
\* changes either the produced Kinematics or the objects that existed before,
\* never both.
C3_FreshStorage ==
    [][/\ Len(kins') = Len(kins) + 1 =>
            /\ last' \in ConstructOps
            /\ kins'[Len(kins')].position > Len(vecs)
            /\ kins'[Len(kins')].velocity > Len(vecs)
            /\ kins'[Len(kins')].position # kins'[Len(kins')].velocity
            /\ SubSeq(vecs', 1, Len(vecs)) = vecs
            /\ SubSeq(kins', 1, Len(kins)) = kins
            /\ poses' = poses
       /\ (last \in ConstructOps /\ last' \in {"x", "y"}) =>
            \/ KinValue(vecs', kins'[Len(kins)]) = KinValue(vecs, kins[Len(kins)])
            \/ OthersUnchanged(Len(kins))]_vars

\* A copy was made of a Kinematics that is not all zeros; it shows the same fields
\* and there are Vectors that existed before it
C3_Witness ==
    /\ last = "from_copy"
    /\ Len(kins) = 2
    /\ KinValue(vecs, kins[2]) = KinValue(vecs, kins[1])
    /\ vecs[kins[1].position] # Vector_zeros

(***************************************************************************)
(* SpecAlg: a + b, a - b and zeros() on Kinematics values.                 *)
(* SpecUpd: k = k.updated(dt), repeated.                                   *)
(***************************************************************************)
AlgVecs == {Vector2D(0, 0), Vector2D(1, 0), Vector2D(0, 2), Vector2D(-1, 1), Vector2D(2, -1)}
AlgTurns == 0..3
AlgRates == {0, 1}
AlgKins == {Kinematics(p, o, v, r) : p \in AlgVecs, o \in AlgTurns, v \in AlgVecs, r \in AlgRates}
\* the third operands (a + b) + c is tried with
AlgThird == {Kinematics(p, o, v, 1) : p \in {Vector2D(2, -1), Vector2D(0, 0)}, o \in AlgTurns,
                                      v \in {Vector2D(-1, 1), Vector2D(1, 0)}}
Dts == -1..MaxDt

InitAlg ==
    /\ ka \in AlgKins
    /\ kb \in AlgKins
    /\ res = 0
    /\ aop = "start"
    /\ k0 = 0 /\ adt = 0 /\ nupd = 0
    /\ HeapIdle /\ VecIdle

\* res = ka + kb
Compose ==
    /\ res' = Kinematics__add__(ka, kb)
    /\ aop' = "add"
    /\ UNCHANGED <<ka, kb, k0, adt, nupd, heapVars, vecVars>>

\* res = ka - kb
Decompose ==
    /\ res' = Kinematics__sub__(ka, kb)
    /\ aop' = "sub"
    /\ UNCHANGED <<ka, kb, k0, adt, nupd, heapVars, vecVars>>

\* res = Kinematics.zeros()
MakeZeros ==
    /\ res' = Kinematics_zeros
    /\ aop' = "zeros"
    /\ UNCHANGED <<ka, kb, k0, adt, nupd, heapVars, vecVars>>

\* res = Kinematics.from_copy(ka)
MakeCopy ==
    /\ res' = Kinematics_from_copy(ka)
    /\ aop' = "from_copy"
    /\ UNCHANGED <<ka, kb, k0, adt, nupd, heapVars, vecVars>>

NextAlg ==
    \/ Compose
    \/ Decompose
    \/ MakeZeros
    \/ MakeCopy

SpecAlg == InitAlg /\ [][NextAlg]_vars

InitUpd ==
    /\ ka \in AlgKins
    /\ k0 = ka
    /\ kb = 0
    /\ res = 0
    /\ aop = "start"
    /\ adt = 0
    /\ nupd = 0
    /\ HeapIdle /\ VecIdle

\* res = ka.updated(dt)
Update ==
    \E dt \in Dts :
        /\ res' = updated(ka, dt)
        /\ adt' = dt
        /\ aop' = "updated"
        /\ UNCHANGED <<ka, kb, k0, nupd, heapVars, vecVars>>

\* the caller keeps the result as its Kinematics: k = k.updated(dt)
Keep ==
    /\ aop = "updated"
    /\ nupd < MaxUpd
    /\ ka' = res
    /\ nupd' = nupd + 1
    /\ aop' = "kept"
    /\ UNCHANGED <<kb, k0, res, adt, heapVars, vecVars>>

NextUpd ==
    \/ Update
    \/ Keep

SpecUpd == InitUpd /\ [][NextUpd]_vars

(***************************************************************************)
(* Claims about the frame algebra (SpecAlg) and the motion update (SpecUpd)*)
(***************************************************************************)
\* Counter-clockwise rotation by a whole number of quarter turns, written out
RotCCW(v, q) == CASE q % 4 = 0 -> <<v[1], v[2]>>
                  [] q % 4 = 1 -> <<-v[2], v[1]>>
                  [] q % 4 = 2 -> <<-v[1], -v[2]>>
                  [] q % 4 = 3 -> <<v[2], -v[1]>>

Plus(u, v) == <<u[1] + v[1], u[2] + v[2]>>

\* C1 as the spec states it: (a + b) - b equals a and (a - b) + b equals a in all
\* four fields.
C1_RoundTrip ==
    /\ aop = "add" => Kinematics__sub__(res, kb) = ka
    /\ aop = "sub" => Kinematics__add__(res, kb) = ka

WholeTurn(q) == q % 4 = 0

\* C1 amended: (a + b) - b and (a - b) + b equal a in orientation and rotation
\* for all a and b, and in position and velocity when the orientations of a and
\* of b are both whole turns; the operand that cancels in all four fields is the
\* frame: (a + b) - a equals b and a + (b - a) equals b.
C1_RoundTripAmended ==
    /\ aop = "add" =>
          /\ Kinematics__sub__(res, kb).orientation = ka.orientation
          /\ Kinematics__sub__(res, kb).rotation = ka.rotation
          /\ (WholeTurn(ka.orientation) /\ WholeTurn(kb.orientation))
                => Kinematics__sub__(res, kb) = ka
          /\ Kinematics__sub__(res, ka) = kb
    /\ aop = "sub" =>
          /\ Kinematics__add__(res, kb).orientation = ka.orientation
          /\ Kinematics__add__(res, kb).rotation = ka.rotation
          /\ (WholeTurn(ka.orientation) /\ WholeTurn(kb.orientation))
                => Kinematics__add__(res, kb) = ka
          /\ Kinematics__add__(kb, res) = ka

\* a + b was computed with b turned a quarter and a not at the origin, and
\* (a + b) - b is not a
C1_Witness ==
    /\ aop = "add"
    /\ kb.orientation = 1
    /\ ka.position = Vector2D(1, 0)
    /\ Kinematics__sub__(res, kb) # ka
    /\ Kinematics__sub__(res, ka) = kb

\* C4: a + b has position a.position + rotate(b.position, a.orientation),
\* orientation a.orientation + b.orientation, velocity a.velocity +
\* rotate(b.velocity, a.orientation) and rotation a.rotation + b.rotation, rotate
\* being the counter-clockwise rotation; b's orientation turns nothing.
C4_Composition ==
    aop = "add" =>
        /\ res.position = Plus(ka.position, RotCCW(kb.position, ka.orientation))
        /\ res.orientation = ka.orientation + kb.orientation
        /\ res.velocity = Plus(ka.velocity, RotCCW(kb.velocity, ka.orientation))
        /\ res.rotation = ka.rotation + kb.rotation

\* a + b with a turned a quarter, b turned otherwise, and b's position and
\* velocity not zero
C4_Witness ==
    /\ aop = "add"
    /\ ka.orientation = 1
    /\ kb.orientation = 2
    /\ kb.position = Vector2D(2, -1)
    /\ kb.velocity = Vector2D(0, 2)
    /\ res.position = Plus(ka.position, Vector2D(1, 2))

\* C9: (a + b) - a equals b and a + (b - a) equals b in all four fields, and
\* a - a equals Kinematics.zeros().
C9_LeftInverse ==
    /\ aop = "add" => Kinematics__sub__(res, ka) = kb
    /\ aop = "sub" => Kinematics__add__(kb, res) = ka
    /\ (aop = "sub" /\ ka = kb) => res = Kinematics_zeros

\* a - a was computed for an a that is not zeros()
C9_Witness ==
    /\ aop = "sub"
    /\ ka = kb
    /\ ka.orientation = 3
    /\ ka.position = Vector2D(-1, 1)
    /\ res = Kinematics_zeros

\* C10: (a + b) + c equals a + (b + c) in all four fields, and zeros() is a
\* two-sided identity of +.
C10_Monoid ==
    /\ aop = "add" =>
          \A c \in AlgThird :
              Kinematics__add__(res, c) = Kinematics__add__(ka, Kinematics__add__(kb, c))
    /\ aop = "zeros" =>
          /\ Kinematics__add__(ka, res) = ka
          /\ Kinematics__add__(res, ka) = ka

\* a + b was computed for an a and a b that do not commute
C10_Witness ==
    /\ aop = "add"
    /\ ka.orientation = 1
    /\ kb.position # Vector_zeros
    /\ res # Kinematics__add__(kb, ka)
    /\ res.position = Kinematics__add__(kb, ka).position
       => res.velocity # Kinematics__add__(kb, ka).velocity

\* C5: k.updated(dt) has orientation k.orientation + k.rotation * dt, position
\* k.position + rotate(k.velocity * dt, k.rotation * dt), and k's velocity and
\* rotation; after any number of k = k.updated(dt) the velocity and rotation
\* are those k started with.
C5_Updated ==
    /\ aop = "updated" =>
          /\ res.orientation = ka.orientation + ka.rotation * adt
          /\ res.position =
                Plus(ka.position,
                     RotCCW(<<ka.velocity[1] * adt, ka.velocity[2] * adt>>, ka.rotation * adt))
          /\ res.velocity = ka.velocity
          /\ res.rotation = ka.rotation
    /\ ka.velocity = k0.velocity
    /\ ka.rotation = k0.rotation

\* the second of two successive updated() calls, on a turning and moving k whose
\* orientation is not the turn of the step: rotating by the starting orientation
\* would give another position
C5_Witness ==
    /\ aop = "updated"
    /\ nupd = 2
    /\ adt = 1
    /\ ka.rotation = 1
    /\ ka.velocity = Vector2D(2, -1)
    /\ ka.orientation % 4 = 3
    /\ res.position # Plus(ka.position, RotCCW(ka.velocity, ka.orientation))

(***************************************************************************)
(* Claims about the Vector functions and the stopping distances (SpecVec)  *)
(***************************************************************************)
IsZeroVec(v) == v[1].num = 0 /\ v[2].num = 0 /\ Finite(v[1]) /\ Finite(v[2])
NormSq(v) == FAdd(FMul(v[1], v[1]), FMul(v[2], v[2]))
Inner(u, v) == FAdd(FMul(u[1], v[1]), FMul(u[2], v[2]))

\* C6: for d > 0, delta_orientation_to_stop(d) has the magnitude
\* rotation^2 / (2 * d); it is positive for a positive rotation, negative for a
\* negative rotation, and positive zero (+0.0) for a rotation of +0.0: the result
\* has no minus sign when the rotation has none.
C6_StopOrientationSign ==
    fop = "delta_orientation_to_stop" =>
        /\ FEq(FAbs(fres), FDiv(FMul(frot, frot), FMul(F(2), fdecel)))
        /\ FGt0(frot) => FGt0(fres)
        /\ FGt0(FNeg(frot)) => FGt0(FNeg(fres))
        /\ ~frot.neg => ~fres.neg

\* C7: for d > 0, delta_position_to_stop(d) has the magnitude |velocity|^2 / (2 * d)
\* and the direction of velocity; velocity (3, 4) and d = 1 give (7.5, 10); a zero
\* velocity gives the zero vector.
C7_StopPosition ==
    fop = "delta_position_to_stop" =>
        /\ FEq(FMul(NormSq(fres), FMul(FMul(F(4), fdecel), fdecel)),
               FMul(NormSq(fself), NormSq(fself)))
        /\ FEq(FMul(fres[1], fself[2]), FMul(fres[2], fself[1]))
        /\ ~IsZeroVec(fself) => FGt0(Inner(fres, fself))
        /\ IsZeroVec(fself) => Vector__eq__(fres, FVector_zeros)
        /\ (fself = Vector2D(F(3), F(4)) /\ fdecel = F(1))
              => fres = Vector2D(Half(15), F(10))

\* the stopping displacement of velocity (3, 4) at deceleration 1
C7_Witness ==
    /\ fop = "delta_position_to_stop"
    /\ fself = Vector2D(F(3), F(4))
    /\ fdecel = F(1)
    /\ fres = Vector2D(Half(15), F(10))

\* C8: zeros().normalized() is zeros(), v.projected_to(zeros()) is zeros(),
\* v.angle_from(zeros()) and zeros().angle_from(v) are 0.0; for another other,
\* v.projected_to(other) is other * (v . other) / |other|^2, and (2, 2) projected to
\* (1, 0) is (2, 0).
C8_ZeroMagnitude ==
    /\ (fop = "normalized" /\ IsZeroVec(fself)) => Vector__eq__(fres, FVector_zeros)
    /\ (fop = "projected_to" /\ IsZeroVec(fother)) => Vector__eq__(fres, FVector_zeros)
    /\ (fop = "angle_from" /\ (IsZeroVec(fself) \/ IsZeroVec(fother)))
          => fres = Exactly(F(0))
    /\ (fop = "projected_to" /\ ~IsZeroVec(fother)) =>
          /\ FEq(FMul(fres[1], NormSq(fother)), FMul(fother[1], Inner(fself, fother)))
          /\ FEq(FMul(fres[2], NormSq(fother)), FMul(fother[2], Inner(fself, fother)))
    /\ (fop = "projected_to" /\ fself = Vector2D(F(2), F(2)) /\ fother = Vector2D(F(1), F(0)))
          => Vector__eq__(fres, Vector2D(F(2), F(0)))

\* a vector that is not zero was projected to zeros()
C8_Witness ==
    /\ fop = "projected_to"
    /\ fself = Vector2D(F(2), F(2))
    /\ IsZeroVec(fother)
    /\ Vector__eq__(fres, FVector_zeros)

====
